---- MODULE Spec2Model ----
(***************************************************************************)
(* Hotel-room booking subsystem of drivent: the three routes of            *)
(* booking-router.ts, their controllers, the bookings service and the      *)
(* booking repository, over an abstract relational store.                  *)
(***************************************************************************)
EXTENDS Integers, Sequences, FiniteSets, TLC

\* ------------------------------------------------------------------ bounds
MaxUsers == 2
\* Cap of the Booking.id sequence (no row is ever deleted).
MaxBookings == 3

Users == 1..MaxUsers

\* The Room table, read-only here: room r has capacity RoomCapacity[r].
\* A room of capacity 0 is the "room unavailable" fixture of the tests.
RoomCapacity == <<0, 1, 2>>
RoomIds == 1..Len(RoomCapacity)

\* ------------------------------------------------------------------ store
VARIABLES
  enrollment,   \* user -> TRUE when an enrollment with address exists
  ticket,       \* user -> the ticket of the user's enrollment, or NoTicket
  bookings,     \* Booking table: set of rows [id, userId, roomId]
  nextId,       \* autoincrement sequence of Booking.id
  last,         \* the last request handled and its response
  before,       \* the Booking table as that request found it
  inflight,     \* user -> the Create of the user that is between its
                \* availability read and its insert, or Idle
  raced         \* TRUE once an insert was made into a room whose bookings
                \* were no longer the ones its request had read

vars == <<enrollment, ticket, bookings, nextId, last, before, inflight, raced>>

TicketStatus == {"RESERVED", "PAID", "PENDING"}
NoTicket == [status |-> "null", isRemote |-> FALSE, includesHotel |-> FALSE]
Tickets == [status : TicketStatus, isRemote : BOOLEAN, includesHotel : BOOLEAN]

NoBooking == [id |-> 0, userId |-> 0, roomId |-> 0]
NoRoom == [id |-> 0, capacity |-> 0]
RoomRow(r) == [id |-> r, capacity |-> RoomCapacity[r]]

\* ------------------------------------------------- JavaScript values
\* A JSON body value / a path parameter, and what Number() makes of it.
Undefined == [t |-> "undefined", n |-> 0, b |-> FALSE, s |-> <<>>]
Null == [t |-> "null", n |-> 0, b |-> FALSE, s |-> <<>>]
Bool(x) == [t |-> "boolean", n |-> 0, b |-> x, s |-> <<>>]
Num(x) == [t |-> "number", n |-> x, b |-> FALSE, s |-> <<>>]
Str(x) == [t |-> "string", n |-> 0, b |-> FALSE, s |-> x]

NaN == [nan |-> TRUE, v |-> 0]
Fin(x) == [nan |-> FALSE, v |-> x]

Digits == <<"0", "1", "2", "3", "4", "5", "6", "7", "8", "9">>
IsDigit(c) == \E i \in 1..10 : Digits[i] = c
DigitVal(c) == (CHOOSE i \in 1..10 : Digits[i] = c) - 1
IsDigits(s) == Len(s) > 0 /\ \A i \in 1..Len(s) : IsDigit(s[i])

RECURSIVE DigitsVal(_)
DigitsVal(s) ==
  IF Len(s) = 0 THEN 0
  ELSE 10 * DigitsVal(SubSeq(s, 1, Len(s) - 1)) + DigitVal(s[Len(s)])

\* Number(string): "" is 0, an optionally signed decimal literal is its
\* value, anything else is NaN.
StringToNumber(s) ==
  IF Len(s) = 0 THEN Fin(0)
  ELSE IF s[1] = "-" \/ s[1] = "+"
    THEN IF IsDigits(Tail(s))
           THEN Fin(IF s[1] = "-" THEN 0 - DigitsVal(Tail(s)) ELSE DigitsVal(Tail(s)))
           ELSE NaN
    ELSE IF IsDigits(s) THEN Fin(DigitsVal(s)) ELSE NaN

Number(x) ==
  CASE x.t = "undefined" -> NaN
    [] x.t = "null" -> Fin(0)
    [] x.t = "boolean" -> Fin(IF x.b THEN 1 ELSE 0)
    [] x.t = "number" -> Fin(x.n)
    [] x.t = "string" -> StringToNumber(x.s)

isNaN(n) == n.nan
\* n < k in JavaScript: false when n is NaN
LessThan(n, k) == ~n.nan /\ n.v < k

\* ------------------------------------------------------------ repository
\* variant: the where clause left out
bookingRepositer_findBooking_anyUser(userId) ==
  IF bookings = {} THEN {NoBooking} ELSE bookings

\* prisma.booking.findFirst({where: {userId}, include: {Room}}): no orderBy,
\* so any of the user's rows may come back; NoBooking stands for null.
bookingRepositer_findBooking(userId) ==
  LET own == {b \in bookings : b.userId = userId}
  IN IF own = {} THEN {NoBooking} ELSE own

bookingRepositer_findRooms(roomId) ==
  IF roomId \in RoomIds THEN RoomRow(roomId) ELSE NoRoom

\* variant: the where clause on the wrong column
bookingRepositer_availabilityRoom_byUser(roomId) ==
  {b \in bookings : b.userId = roomId}

bookingRepositer_availabilityRoom(roomId) ==
  {b \in bookings : b.roomId = roomId}

\* variant: the two columns swapped
bookingRepositer_createBooking_swapped(userId, roomId) ==
  [id |-> nextId, userId |-> roomId, roomId |-> userId]

\* prisma.booking.create: the row gets the next value of the id sequence.
bookingRepositer_createBooking(userId, roomId) ==
  [id |-> nextId, userId |-> userId, roomId |-> roomId]

\* variant: the where clause left out
bookingRepositer_updateBooking_everyRow(bookingId, roomId) ==
  {[b EXCEPT !.roomId = roomId] : b \in bookings}

bookingRepositer_updateBooking(bookingId, roomId) ==
  {IF b.id = bookingId THEN [b EXCEPT !.roomId = roomId] ELSE b : b \in bookings}

\* --------------------------------------------------------------- service
roomUnavailable_strict(room, availability) ==
  room.capacity < Cardinality(availability)

roomUnavailable(room, availability) ==
  room.capacity <= Cardinality(availability)

ticketRejected(t) ==
  t = NoTicket \/ t.status = "RESERVED" \/ t.isRemote \/ ~t.includesHotel

\* variant: the eligibility check placed before the room check
validateRoom_eligibilityFirst(userId, roomId) ==
  IF roomId.t # "number" THEN "PrismaClientValidationError"
  ELSE IF ~enrollment[userId] THEN "UnauthorizedError"
  ELSE IF ticketRejected(ticket[userId]) THEN "UnauthorizedError"
  ELSE LET room == bookingRepositer_findRooms(roomId.n)
       IN IF room = NoRoom THEN "NotFoundError"
          ELSE IF roomUnavailable(room, bookingRepositer_availabilityRoom(roomId.n))
            THEN "UnauthorizedError"
          ELSE "ok"

\* variant: a missing enrollment reported as notFoundError
validateRoom_enrollmentNotFound(userId, roomId) ==
  IF roomId.t # "number" THEN "PrismaClientValidationError"
  ELSE LET room == bookingRepositer_findRooms(roomId.n)
       IN IF room = NoRoom THEN "NotFoundError"
          ELSE IF roomUnavailable(room, bookingRepositer_availabilityRoom(roomId.n))
            THEN "UnauthorizedError"
          ELSE IF ~enrollment[userId] THEN "NotFoundError"
          ELSE IF ticketRejected(ticket[userId]) THEN "UnauthorizedError"
          ELSE "ok"

\* validateRoom(userId, roomId): "ok" or the name of the error thrown.
\* roomId is the body value as the controller passes it on; Prisma rejects an
\* argument that is not a number for the Int column Room.id.
validateRoom(userId, roomId) ==
  IF roomId.t # "number" THEN "PrismaClientValidationError"
  ELSE LET room == bookingRepositer_findRooms(roomId.n)
       IN IF room = NoRoom THEN "NotFoundError"
          ELSE IF roomUnavailable(room, bookingRepositer_availabilityRoom(roomId.n))
            THEN "UnauthorizedError"
          ELSE IF ~enrollment[userId] THEN "UnauthorizedError"
          ELSE IF ticketRejected(ticket[userId]) THEN "UnauthorizedError"
          ELSE "ok"

Outcome(name, value, table, seq) ==
  [name |-> name, value |-> value, bookings |-> table, nextId |-> seq]

\* getBooking(userId), booking being what findBooking returned
bookingService_getBooking(userId, booking) ==
  IF booking = NoBooking THEN "NotFoundError" ELSE "ok"

bookingService_createBooking(userId, roomId) ==
  LET v == validateRoom(userId, roomId)
  IN IF v # "ok" THEN Outcome(v, 0, bookings, nextId)
     ELSE LET booking == bookingRepositer_createBooking(userId, roomId.n)
          IN Outcome("ok", booking.id, bookings \cup {booking}, nextId + 1)

notOwnBooking_anyId(booking, bookingId) ==
  booking = NoBooking

\* !booking || bookingId !== booking.id
notOwnBooking(booking, bookingId) ==
  booking = NoBooking \/ bookingId # booking.id

\* variant: the ownership check placed before validateRoom
bookingService_updateBooking_ownershipFirst(userId, roomId, bookingId, booking) ==
  IF notOwnBooking(booking, bookingId)
    THEN Outcome("UnauthorizedError", 0, bookings, nextId)
  ELSE LET v == validateRoom(userId, roomId)
       IN IF v # "ok" THEN Outcome(v, 0, bookings, nextId)
          ELSE Outcome("ok", booking.id,
                       bookingRepositer_updateBooking(booking.id, roomId.n), nextId)

\* variant: the row updated before the ownership check
bookingService_updateBooking_updateFirst(userId, roomId, bookingId, booking) ==
  LET v == validateRoom(userId, roomId)
  IN IF v # "ok" THEN Outcome(v, 0, bookings, nextId)
     ELSE IF notOwnBooking(booking, bookingId)
       THEN Outcome("UnauthorizedError", 0,
                    bookingRepositer_updateBooking(bookingId, roomId.n), nextId)
     ELSE Outcome("ok", booking.id,
                  bookingRepositer_updateBooking(booking.id, roomId.n), nextId)

\* updateBooking(userId, roomId, bookingId), booking being what findBooking
\* returned after validateRoom passed
bookingService_updateBooking(userId, roomId, bookingId, booking) ==
  LET v == validateRoom(userId, roomId)
  IN IF v # "ok" THEN Outcome(v, 0, bookings, nextId)
     ELSE IF notOwnBooking(booking, bookingId)
       THEN Outcome("UnauthorizedError", 0, bookings, nextId)
     ELSE Outcome("ok", booking.id,
                  bookingRepositer_updateBooking(booking.id, roomId.n), nextId)

\* ------------------------------------------------------------ controllers
OK == 200
BAD_REQUEST == 400
PAYMENT_REQUIRED == 402
FORBIDDEN == 403
NOT_FOUND == 404

\* catch block of createBooking / updateBooking
errorStatus(name) ==
  IF name = "NotFoundError" THEN NOT_FOUND
  ELSE IF name = "UnauthorizedError" THEN FORBIDDEN
  ELSE BAD_REQUEST

\* catch block of getBooking
getBookingErrorStatus(name) ==
  IF name = "NotFoundError" THEN NOT_FOUND ELSE PAYMENT_REQUIRED

roomIdInvalid(roomId) ==
  LessThan(Number(roomId), 1) \/ isNaN(Number(roomId))

bookingIdInvalid(bookingId) ==
  LessThan(bookingId, 1) \/ isNaN(bookingId)

Response(op, userId, roomId, bookingId, called, name, value, booking, status) ==
  [op |-> op, userId |-> userId, roomId |-> roomId, bookingId |-> bookingId,
   called |-> called, name |-> name, value |-> value, booking |-> booking,
   status |-> status]

WithRoom(b) ==
  [id |-> b.id, userId |-> b.userId, roomId |-> b.roomId,
   Room |-> bookingRepositer_findRooms(b.roomId)]
NoBody == [id |-> 0, userId |-> 0, roomId |-> 0, Room |-> NoRoom]

\* GET /booking
getBooking(userId) ==
  \E booking \in bookingRepositer_findBooking(userId) :
    LET name == bookingService_getBooking(userId, booking)
    IN /\ before' = bookings
       /\ last' = IF name = "ok"
                    THEN Response("GET", userId, Undefined, Undefined, TRUE, "ok",
                                  booking.id, WithRoom(booking), OK)
                    ELSE Response("GET", userId, Undefined, Undefined, TRUE, name,
                                  0, NoBody, getBookingErrorStatus(name))
       /\ UNCHANGED <<inflight, raced, enrollment, ticket, bookings, nextId>>

\* POST /booking, roomId being req.body.roomId
createBooking(userId, roomId) ==
  IF roomIdInvalid(roomId)
    THEN /\ last' = Response("POST", userId, roomId, Undefined, FALSE, "none",
                             0, NoBody, NOT_FOUND)
         /\ before' = bookings
         /\ UNCHANGED <<inflight, raced, enrollment, ticket, bookings, nextId>>
    ELSE LET r == bookingService_createBooking(userId, roomId)
         IN /\ r.name = "ok" => nextId <= MaxBookings
            /\ before' = bookings
            /\ bookings' = r.bookings
            /\ nextId' = r.nextId
            /\ last' = Response("POST", userId, roomId, Undefined, TRUE, r.name,
                                r.value, NoBody,
                                IF r.name = "ok" THEN OK ELSE errorStatus(r.name))
            /\ UNCHANGED <<inflight, raced, enrollment, ticket>>

\* PUT /booking/:bookingId, roomId being req.body.roomId and param being
\* req.params.bookingId
updateBooking(userId, roomId, param) ==
  LET bookingId == Number(param)
  IN IF roomIdInvalid(roomId)
       THEN /\ last' = Response("PUT", userId, roomId, param, FALSE, "none",
                                0, NoBody, NOT_FOUND)
            /\ before' = bookings
            /\ UNCHANGED <<inflight, raced, enrollment, ticket, bookings, nextId>>
     ELSE IF bookingIdInvalid(bookingId)
       THEN /\ last' = Response("PUT", userId, roomId, param, FALSE, "none",
                                0, NoBody, FORBIDDEN)
            /\ before' = bookings
            /\ UNCHANGED <<inflight, raced, enrollment, ticket, bookings, nextId>>
     ELSE \E booking \in bookingRepositer_findBooking(userId) :
            LET r == bookingService_updateBooking(userId, roomId, bookingId.v, booking)
            IN /\ before' = bookings
               /\ bookings' = r.bookings
               /\ nextId' = r.nextId
               /\ last' = Response("PUT", userId, roomId, param, TRUE, r.name,
                                   r.value, NoBody,
                                   IF r.name = "ok" THEN OK ELSE errorStatus(r.name))
               /\ UNCHANGED <<inflight, raced, enrollment, ticket>>

\* POST /booking taken one await at a time. First half: the controller's
\* validation and validateRoom, whose availabilityRoom read is kept.
Idle == [roomId |-> 0, availability |-> {}]

createBooking_validate(userId, roomId) ==
  /\ inflight[userId] = Idle
  /\ IF roomIdInvalid(roomId)
       THEN /\ last' = Response("POST", userId, roomId, Undefined, FALSE, "none",
                                0, NoBody, NOT_FOUND)
            /\ before' = bookings
            /\ UNCHANGED inflight
     ELSE LET v == validateRoom(userId, roomId)
          IN IF v # "ok"
               THEN /\ last' = Response("POST", userId, roomId, Undefined, TRUE, v,
                                        0, NoBody, errorStatus(v))
                    /\ before' = bookings
                    /\ UNCHANGED inflight
             ELSE /\ inflight' = [inflight EXCEPT ![userId] =
                       [roomId |-> roomId.n,
                        availability |-> bookingRepositer_availabilityRoom(roomId.n)]]
                  /\ UNCHANGED <<last, before>>
  /\ UNCHANGED <<enrollment, ticket, bookings, nextId, raced>>

\* Second half: bookingRepositer.createBooking and the 200 answer.
createBooking_insert(userId) ==
  /\ inflight[userId] # Idle
  /\ nextId <= MaxBookings
  /\ LET roomId == inflight[userId].roomId
         booking == bookingRepositer_createBooking(userId, roomId)
     IN /\ before' = bookings
        /\ bookings' = bookings \cup {booking}
        /\ nextId' = nextId + 1
        /\ raced' = (raced \/ bookingRepositer_availabilityRoom(roomId)
                                 # inflight[userId].availability)
        /\ last' = Response("POST", userId, Num(roomId), Undefined, TRUE, "ok",
                            booking.id, NoBody, OK)
  /\ inflight' = [inflight EXCEPT ![userId] = Idle]
  /\ UNCHANGED <<enrollment, ticket>>

\* ---------------------------------------------------------- specification
\* The first user's enrollment and ticket range over every combination; the
\* other users are enrolled and hold a paid in-person ticket with hotel.
PaidHotelTicket == [status |-> "PAID", isRemote |-> FALSE, includesHotel |-> TRUE]
Profiles ==
  {[enrolled |-> FALSE, ticket |-> NoTicket]} \cup
  {[enrolled |-> TRUE, ticket |-> t] : t \in Tickets \cup {NoTicket}}

InitWith(P) ==
  /\ \E p \in P :
       /\ enrollment = [u \in Users |-> IF u = 1 THEN p.enrolled ELSE TRUE]
       /\ ticket = [u \in Users |-> IF u = 1 THEN p.ticket ELSE PaidHotelTicket]
  /\ bookings = {}
  /\ nextId = 1
  /\ last = Response("none", 0, Undefined, Undefined, FALSE, "none", 0, NoBody, 0)
  /\ before = {}
  /\ inflight = [u \in Users |-> Idle]
  /\ raced = FALSE

Init == InitWith(Profiles)

DecimalString(n) ==
  IF n < 0 THEN <<"-", Digits[(0 - n) + 1]>> ELSE <<Digits[n + 1]>>

\* Well-formed requests: the id of every room and one id of no room; the id
\* of every booking made so far and one id of no booking.
RoomIdInputs == {Num(n) : n \in 1..(Len(RoomCapacity) + 1)}
BookingIdInputs == {Str(DecimalString(n)) : n \in 1..nextId}

Next ==
  \/ \E u \in Users : getBooking(u)
  \/ \E u \in Users, r \in RoomIdInputs : createBooking(u, r)
  \/ \E u \in Users, r \in RoomIdInputs, p \in BookingIdInputs : updateBooking(u, r, p)

Spec == Init /\ [][Next]_vars

\* Arbitrary requests: body values of every JSON type and any path parameter,
\* the first user being either eligible or not enrolled.
BodyRoomIds ==
  {Undefined, Null, Bool(TRUE), Str(<<"a">>), Str(<<"2">>)}
    \cup {Num(n) : n \in -1..(Len(RoomCapacity) + 1)}
PathBookingIds ==
  {Str(<<"a">>)} \cup {Str(DecimalString(n)) : n \in -1..nextId}

InitHttp ==
  InitWith({[enrolled |-> FALSE, ticket |-> NoTicket],
            [enrolled |-> TRUE, ticket |-> PaidHotelTicket]})

NextHttp ==
  \/ \E u \in Users : getBooking(u)
  \/ \E u \in Users, r \in BodyRoomIds : createBooking(u, r)
  \/ \E u \in Users, r \in BodyRoomIds, p \in PathBookingIds : updateBooking(u, r, p)

SpecHttp == InitHttp /\ [][NextHttp]_vars

\* Concurrent requests: the handlers of different users interleave at the
\* await between the availability read and the insert.
NextRace ==
  \/ \E u \in Users : getBooking(u)
  \/ \E u \in Users, r \in RoomIdInputs : createBooking_validate(u, r)
  \/ \E u \in Users : createBooking_insert(u)

SpecRace == InitHttp /\ [][NextRace]_vars

\* ================================================================ claims
\* The vocabulary of the claims, over the last request and the table it found.
Eligible(u) ==
  /\ enrollment[u]
  /\ ticket[u] # NoTicket
  /\ ticket[u].status = "PAID"
  /\ ~ticket[u].isRemote
  /\ ticket[u].includesHotel

Occupancy(table, r) == Cardinality({b \in table : b.roomId = r})

\* the service was entered by Create / Update with a numeric room id
Create == last.op = "POST" /\ last.called /\ last.roomId.t = "number"
Update == last.op = "PUT" /\ last.called /\ last.roomId.t = "number"
Read == last.op = "GET"
Target == last.roomId.n
Caller == last.userId
SuppliedId == Number(last.bookingId).v
RoomExists == Target \in RoomIds
RoomFull == RoomExists /\ Occupancy(before, Target) >= RoomCapacity[Target]
RoomFree == RoomExists /\ Occupancy(before, Target) < RoomCapacity[Target]
OwnBefore == {b \in before : b.userId = Caller}

\* C1: a Create or Update by an eligible user that targets a room holding at
\* least as many bookings as its capacity (capacity 0 included) fails with
\* UnauthorizedError, also when the caller's own booking is in that room.
C1_FullRoomUnauthorized ==
  ((Create \/ Update) /\ RoomFull /\ Eligible(Caller))
    => (last.name = "UnauthorizedError" /\ bookings = before)

C1_Witness ==
  /\ Update /\ RoomFull /\ Eligible(Caller)
  /\ RoomCapacity[Target] > 0
  /\ \E b \in before : b.userId = Caller /\ b.roomId = Target /\ b.id = SuppliedId
  /\ last.name = "UnauthorizedError"

\* C2: a Create or Update by a user without a paid, in-person, hotel-inclusive
\* ticket fails with UnauthorizedError whatever the occupancy of the existing
\* target room.
C2_IneligibleUnauthorized ==
  ((Create \/ Update) /\ RoomExists /\ ~Eligible(Caller))
    => last.name = "UnauthorizedError"

\* C3: an Update succeeds only with the id of a booking the caller owns; an
\* eligible caller updating to a room with free capacity gets
\* UnauthorizedError when they own no booking, when the id names no booking
\* and when it names another user's booking.
C3_OwnershipCheck ==
  /\ (Update /\ last.name = "ok")
       => \E b \in before : b.userId = Caller /\ b.id = SuppliedId
  /\ (Update /\ Eligible(Caller) /\ RoomFree
        /\ \/ OwnBefore = {}
           \/ \A b \in before : b.id # SuppliedId
           \/ \E b \in before : b.id = SuppliedId /\ b.userId # Caller)
       => (last.name = "UnauthorizedError" /\ bookings = before)

C3_Witness ==
  /\ Update /\ Eligible(Caller) /\ RoomFree
  /\ OwnBefore # {}
  /\ \E b \in before : b.id = SuppliedId /\ b.userId # Caller
  /\ last.name = "UnauthorizedError"

\* C4 as claimed: an enrolled caller with a missing, unpaid, remote or
\* no-hotel ticket gets the eligibility check's UnauthorizedError when the
\* target room is full or does not exist, never NotFoundError.
C4_EligibilityFirst ==
  ((Create \/ Update) /\ enrollment[Caller] /\ ~Eligible(Caller)
     /\ (RoomFull \/ ~RoomExists))
    => last.name = "UnauthorizedError"

\* C4 as amended: the room check runs first, so whatever the caller's
\* eligibility a target that is no room gives NotFoundError and a full room
\* gives UnauthorizedError.
C4_RoomCheckFirst ==
  /\ ((Create \/ Update) /\ ~RoomExists) => last.name = "NotFoundError"
  /\ ((Create \/ Update) /\ RoomFull) => last.name = "UnauthorizedError"

C4_Witness ==
  /\ Create \/ Update
  /\ enrollment[Caller] /\ ~Eligible(Caller)
  /\ ~RoomExists
  /\ last.name = "NotFoundError"

\* C5 as claimed: without an enrollment Create and Update fail with
\* NotFoundError, answered 404 (taken where the target room exists and has
\* free capacity, so that no failure of the room check is involved).
C5_NoEnrollmentNotFound ==
  ((Create \/ Update) /\ ~enrollment[Caller] /\ RoomFree)
    => (last.name = "NotFoundError" /\ last.status = NOT_FOUND)

\* C5 as amended: without an enrollment Create and Update on an existing room
\* fail with UnauthorizedError, answered 403; NotFoundError and 404 come only
\* from a target that is no room.
C5_NoEnrollmentUnauthorized ==
  ((Create \/ Update) /\ ~enrollment[Caller])
    => /\ RoomExists => (last.name = "UnauthorizedError" /\ last.status = FORBIDDEN)
       /\ ~RoomExists => (last.name = "NotFoundError" /\ last.status = NOT_FOUND)

C5_Witness ==
  /\ Create \/ Update
  /\ ~enrollment[Caller]
  /\ RoomFree
  /\ last.name = "UnauthorizedError"
  /\ last.status = FORBIDDEN

\* C6: a Create by an eligible caller on an existing room with fewer bookings
\* than its capacity succeeds: one booking is added, it links the caller to
\* the room, its id is new and is the value returned, and the bookings
\* already there are unchanged.
C6_CreateAddsOneBooking ==
  (Create /\ Eligible(Caller) /\ RoomFree)
    => /\ last.name = "ok"
       /\ last.status = OK
       /\ before \subseteq bookings
       /\ Cardinality(bookings) = Cardinality(before) + 1
       /\ \E b \in bookings \ before :
            /\ b.userId = Caller
            /\ b.roomId = Target
            /\ b.id = last.value
            /\ \A x \in before : x.id # b.id

C6_Witness ==
  /\ Create /\ Eligible(Caller) /\ RoomFree
  /\ last.name = "ok"
  /\ before # {}
  /\ Caller # Target

\* The booking a successful Update acted on, as it was before.
Moved == CHOOSE b \in before : b.id = last.value
UpdateFrame ==
  /\ \E b \in before : b.id = last.value
  /\ last.value = SuppliedId
  /\ Moved.userId = Caller
  /\ bookings = (before \ {Moved}) \cup {[Moved EXCEPT !.roomId = Target]}
  /\ Cardinality(bookings) = Cardinality(before)

\* C7 as claimed: a successful Update re-points the caller's booking only
\* (same id and owner, id returned, every other booking and the number of
\* bookings unchanged), the old room losing one occupant and the new room
\* gaining one.
C7_UpdateMovesOccupant ==
  (Update /\ last.name = "ok")
    => /\ UpdateFrame
       /\ Occupancy(bookings, Moved.roomId) = Occupancy(before, Moved.roomId) - 1
       /\ Occupancy(bookings, Target) = Occupancy(before, Target) + 1

\* C7 as amended: the same, the occupancies changing only when the new room
\* differs from the booking's old room; an Update to the room the booking is
\* already in leaves every booking and every occupancy as it was.
C7_UpdateRepointsBooking ==
  (Update /\ last.name = "ok")
    => /\ UpdateFrame
       /\ Moved.roomId # Target =>
            /\ Occupancy(bookings, Moved.roomId) = Occupancy(before, Moved.roomId) - 1
            /\ Occupancy(bookings, Target) = Occupancy(before, Target) + 1
       /\ Moved.roomId = Target => bookings = before

C7_Witness ==
  /\ Update /\ last.name = "ok"
  /\ Moved.roomId # Target
  /\ \E b \in before : b.userId # Caller

\* C8: a Read fails with NotFoundError (404) exactly when the caller owns no
\* booking; otherwise it returns one of the caller's bookings with the row of
\* its room; the bookings stay as they were; the caller's ticket plays no
\* part.
C8_ReadOwnBooking ==
  Read =>
    /\ bookings = before
    /\ last.name = "NotFoundError" <=> OwnBefore = {}
    /\ last.name = "NotFoundError" => last.status = NOT_FOUND
    /\ OwnBefore # {} =>
         /\ last.name = "ok" /\ last.status = OK
         /\ last.booking.userId = Caller
         /\ \E b \in before :
              /\ b.userId = Caller
              /\ last.booking = [id |-> b.id, userId |-> b.userId,
                                 roomId |-> b.roomId, Room |-> RoomRow(b.roomId)]

C8_Witness ==
  /\ Read /\ last.name = "ok"
  /\ last.booking.userId = Caller
  /\ \E b \in before : b.userId # Caller

\* C9: a Create or Update by an eligible caller whose target is no room fails
\* with NotFoundError, for an Update whatever booking id comes with it.
C9_UnknownRoomNotFound ==
  ((Create \/ Update) /\ Eligible(Caller) /\ ~RoomExists)
    => (last.name = "NotFoundError" /\ last.status = NOT_FOUND /\ bookings = before)

C9_Witness ==
  /\ Update /\ Eligible(Caller) /\ ~RoomExists
  /\ \E b \in before : b.id = SuppliedId /\ b.userId # Caller
  /\ last.name = "NotFoundError"

\* What a reader calls a numeric value: a number, or a string that spells an
\* optionally signed decimal number.
s1(x) == x.s[1]
SpellsNumber(s) ==
  \/ IsDigits(s)
  \/ Len(s) > 1 /\ (s[1] = "-" \/ s[1] = "+") /\ IsDigits(Tail(s))
Numeric(x) == x.t = "number" \/ (x.t = "string" /\ SpellsNumber(x.s))
NumericValue(x) ==
  IF x.t = "number" THEN x.n
  ELSE IF s1(x) = "-" THEN 0 - DigitsVal(Tail(x.s))
  ELSE IF s1(x) = "+" THEN DigitsVal(Tail(x.s))
  ELSE DigitsVal(x.s)
Rejected(x) == ~Numeric(x) \/ NumericValue(x) < 1

\* C10: the answer to POST /booking and PUT /booking/:bookingId is fixed by
\* the input and the service outcome: a roomId that is missing, not numeric
\* or below 1 gives 404 and the service is not called; otherwise, on PUT, a
\* bookingId that is not numeric or below 1 gives 403; otherwise success
\* gives 200 with the booking id, NotFoundError 404, UnauthorizedError 403
\* and any other error 400.
C10_HttpOutcome ==
  (last.op = "POST" \/ last.op = "PUT") =>
    IF Rejected(last.roomId)
      THEN last.status = NOT_FOUND /\ ~last.called /\ bookings = before
    ELSE IF last.op = "PUT" /\ Rejected(last.bookingId)
      THEN last.status = FORBIDDEN /\ ~last.called /\ bookings = before
    ELSE /\ last.called
         /\ last.name = "ok" => (last.status = OK /\ last.value > 0)
         /\ last.name = "NotFoundError" => last.status = NOT_FOUND
         /\ last.name = "UnauthorizedError" => last.status = FORBIDDEN
         /\ last.name \notin {"ok", "NotFoundError", "UnauthorizedError"}
              => last.status = BAD_REQUEST

\* C11: the availability read and the insert being separate steps, two
\* Creates by two eligible users on a room one short of its capacity can both
\* pass the check and both insert, which leaves the room with more bookings
\* than its capacity. A room gets over its capacity in no other way: only
\* after an insert that followed another request's insert into the room its
\* own request had read, and by at most one booking less than there are
\* concurrent requests.
C11_OverCapacityOnlyByRace ==
  \A r \in RoomIds :
    /\ Occupancy(bookings, r) > RoomCapacity[r] => raced
    /\ Occupancy(bookings, r) <= RoomCapacity[r] + MaxUsers - 1

C11_Witness ==
  /\ Create /\ last.name = "ok" /\ Eligible(Caller)
  /\ RoomCapacity[Target] > 0
  /\ Occupancy(before, Target) = RoomCapacity[Target]
  /\ Occupancy(bookings, Target) = RoomCapacity[Target] + 1
  /\ \E b \in before :
       /\ b.roomId = Target /\ b.userId # Caller /\ Eligible(b.userId)
       /\ b.id = last.value - 1

\* C12: each Create and each Update being one atomic step and the rooms and
\* tickets fixed, from an empty Booking table no room ever holds more
\* bookings than its capacity.
C12_NeverOverCapacity ==
  \A r \in RoomIds : Occupancy(bookings, r) <= RoomCapacity[r]

C12_Witness ==
  /\ \A r \in RoomIds : Occupancy(bookings, r) = RoomCapacity[r]
  /\ Create /\ RoomFull /\ Eligible(Caller)
  /\ last.name = "UnauthorizedError"

\* C13: from an empty Booking table, after any Creates and Updates no user
\* owns more than one booking.
C13_OneBookingPerUser ==
  \A u \in Users : Cardinality({b \in bookings : b.userId = u}) <= 1

\* C14: a Create or Update that ends in NotFoundError or UnauthorizedError
\* leaves the Booking table as it was: no row added, removed or re-pointed.
C14_ErrorChangesNothing ==
  ((last.op = "POST" \/ last.op = "PUT")
     /\ last.name \in {"NotFoundError", "UnauthorizedError"})
    => bookings = before

C14_Witness ==
  /\ Update /\ Eligible(Caller) /\ RoomFree
  /\ last.name = "UnauthorizedError"
  /\ \E b \in before : b.id = SuppliedId /\ b.userId # Caller /\ b.roomId # Target
  /\ bookings = before

====
